---- MODULE Spec2Model ----
(***************************************************************************)
(* Model of flow-lib's context.rs: the three service modules (get_jwt,     *)
(* signer, execute), CommandContext, Context and its operations.           *)
(*                                                                         *)
(* A service handle (TowerClient, type Svc) is a value that clones share:  *)
(* the model keeps every handle in the table `handles` and a Svc value is  *)
(* an index into it, so a clone of a Svc is the same index.                *)
(*                                                                         *)
(* Context::execute and get_jwt_header take &mut self, so two calls that   *)
(* run concurrently run on two Context values: each caller (node) owns the *)
(* clone ctxs[t] the executor made for it; ctxs[Root] is the context the   *)
(* executor constructed.                                                   *)
(***************************************************************************)
EXTENDS Integers, Sequences, FiniteSets, TLC

VARIABLES
    handles,     \* table of service handles (shared admission budgets)
    configured,  \* per handle: the constructor and the bound its creator asked for
    ctxs,        \* Root and one Context per caller (NoCtx before it is cloned)
    tasks,       \* per caller: the position inside the async operation
    policy,      \* RetryPolicy(n) of the retried AuthService call
    retry        \* the retried AuthService call: request, attempts, result

vars == <<handles, configured, ctxs, tasks, policy, retry>>

\* ------------------------------------------------------------------ bounds

NumTasks == 2
MaxSize == 1
MaxRetry == 2

Tasks == 1..NumTasks
Root == 0

\* ------------------------------------------------------------------ values

\* Rust Strings that the code inspects or builds are sequences of characters.
S_Bearer == <<"B", "e", "a", "r", "e", "r", " ">>
S_RefreshToken == <<"R", "e", "f", "r", "e", "s", "h", " ", "T", "o", "k", "e", "n">>

NIL == "nil"                      \* uuid::Uuid::nil()
UserIds == {NIL, "u1", "u2"}
FlowRunIds == {"r1"}
NodeIds == {"n1"}
TimesSet == {1}

None == [some |-> FALSE]
Some(v) == [some |-> TRUE, val |-> v]

Ok(v) == [ok |-> TRUE, val |-> v]
Err(e) == [ok |-> FALSE, err |-> e]
\* An error value: the enum variant, its payload, and (Supabase only) the
\* provider's error_description.
E(variant, payload) == [variant |-> variant, payload |-> payload, error_description |-> <<>>]

NoResult == Err(E("pending", "none"))

\* ------------------------------------------------------------------ get_jwt

get_jwt_Error_worker(e) == E("Other", e)

get_jwt_Error_other(e) == E("Other", e)

\* ------------------------------------------------------------------ execute

execute_Error_worker(e) == E("Worker", e)

execute_Error_other(e) == E("Other", e)

\* ------------------------------------------------------------------ signer

signer_Error_Worker(e) == E("Worker", e)

\* BoxError::from("unimplemented").into(): the #[from] BoxError conversion
signer_Error_from_BoxError(e) == E("Other", e)

\* The worker-error translator a handle was built with, applied to a failure.
Translate(worker, e) ==
    CASE worker = "get_jwt::Error::worker" -> get_jwt_Error_worker(e)
      [] worker = "execute::Error::worker" -> execute_Error_worker(e)
      [] worker = "signer::Error::Worker" -> signer_Error_Worker(e)

\* ------------------------------------------------------------------ TowerClient

\* An unused slot of the handle table.
NoHandle ==
    [cap |-> "none", kind |-> "none", error |-> E("none", "none"), worker |-> "none",
     size |-> 0, handler |-> "none", signer |-> 0]

\* TowerClient::unimplemented(error, worker_error): every call fails with the
\* configured error; no handler, no admission budget.
Svc_unimplemented(cap, error, worker) ==
    [cap |-> cap, kind |-> "unimplemented", error |-> error, worker |-> worker,
     size |-> 0, handler |-> "none", signer |-> 0]

\* TowerClient::from_service(service, worker_error, size): wraps a handler
\* behind an admission budget of `size` in-flight calls.
Svc_from_service(cap, handler, worker, size, signer) ==
    [cap |-> cap, kind |-> "from_service", error |-> E("none", "none"),
     worker |-> worker, size |-> size, handler |-> handler, signer |-> signer]

get_jwt_unimplemented_svc ==
    Svc_unimplemented("get_jwt", get_jwt_Error_other("unimplemented"),
                      "get_jwt::Error::worker")

\* get_jwt::not_allowed built with unimplemented_svc's error.
get_jwt_not_allowed_as_unimplemented ==
    Svc_unimplemented("get_jwt", get_jwt_Error_other("unimplemented"),
                      "get_jwt::Error::worker")

get_jwt_not_allowed ==
    Svc_unimplemented("get_jwt", E("NotAllowed", "none"), "get_jwt::Error::worker")

signer_unimplemented_svc ==
    Svc_unimplemented("signer", signer_Error_from_BoxError("unimplemented"),
                      "signer::Error::Worker")

execute_unimplemented_svc ==
    Svc_unimplemented("execute", execute_Error_other("unimplemented"),
                      "execute::Error::worker")

\* execute::simple handing from_service a budget one larger than asked.
execute_simple_oversize(ctx, size) ==
    Svc_from_service("execute", "simple", "execute::Error::worker", size + 1, ctx.signer)

\* execute::simple(ctx, size): the handler captures ctx.signer.clone().
execute_simple(ctx, size) ==
    Svc_from_service("execute", "simple", "execute::Error::worker", size, ctx.signer)

\* ------------------------------------------------------------------ Context

\* Places in the handle table: the signer and the auth handle of the flow
\* run, and the execution handle built for context c.
SignerH == 1
AuthH == 2
ExecH(c) == 3 + c
HandleIds == 1..(3 + NumTasks)

\* ExtensionRegistry (utils::Extensions): a map from the type of a capability
\* to the one value registered for it.  TypeIds are the types a node may ask
\* for; "TyC" is never registered.
TypeIds == {"TyA", "TyB", "TyC"}

Extensions_default == [ty \in {} |-> "none"]

\* The registries an executor may hand to from_cfg.
Registries ==
    {Extensions_default,
     [ty \in {"TyA"} |-> "a1"],
     [ty \in {"TyB"} |-> "b1"],
     [ty \in {"TyA", "TyB"} |-> IF ty = "TyA" THEN "a1" ELSE "b1"],
     [ty \in {"TyA", "TyB"} |-> IF ty = "TyA" THEN "a2" ELSE "a1"]}

\* Extensions::get::<T>()
Extensions_get(extensions, T) ==
    IF T \in DOMAIN extensions THEN Some(extensions[T]) ELSE None

User(id) == [id |-> id]

User_default == User(NIL)

CommandContext(svc, flow_run_id, node_id, times) ==
    [svc |-> svc, flow_run_id |-> flow_run_id, node_id |-> node_id, times |-> times]

NoCtx == [flow_owner |-> User(NIL), started_by |-> User(NIL),
          extensions |-> Extensions_default, command |-> None,
          signer |-> 0, get_jwt |-> 0]

\* Context::from_cfg: sig_svc and token_svc are the (indices of the) injected
\* handles; the CommandContext is left unset.
from_cfg(flow_owner, started_by, sig_svc, token_svc, extensions) ==
    [flow_owner |-> flow_owner, started_by |-> started_by,
     extensions |-> extensions, command |-> None,
     signer |-> sig_svc, get_jwt |-> token_svc]

\* Context::default() that forgets to attach the CommandContext.
Context_default_nocommand ==
    LET ctx == from_cfg(User_default, User_default, SignerH, AuthH, Extensions_default)
    IN  [ctx |-> ctx,
         signer |-> signer_unimplemented_svc,
         get_jwt |-> get_jwt_unimplemented_svc,
         execute |-> execute_simple(ctx, 1)]

\* impl Default for Context: the context and the three handles it creates
\* (signer stub, get_jwt stub, execute::simple(&ctx, 1)).
Context_default ==
    LET ctx == from_cfg(User_default, User_default, SignerH, AuthH, Extensions_default)
    IN  [ctx |-> [ctx EXCEPT !.command = Some(CommandContext(ExecH(Root), NIL, NIL, 0))],
         signer |-> signer_unimplemented_svc,
         get_jwt |-> get_jwt_unimplemented_svc,
         execute |-> execute_simple(ctx, 1)]

\* ------------------------------------------------------------------ requests and handler outcomes

\* Instruction batches: i0 holds no instruction and so produces no on-chain
\* transaction; i1 and i2 produce one.
Instrs == {"i0", "i1", "i2"}
NoTxInstrs == {"i0"}
Outputs == {"o1"}
Pubkeys == {"pk1"}
Messages == {"m1", "m2"}
Timeouts == {30}

T_abc == <<"a", "b", "c", ".", "d", "e", "f", ".", "g", "h", "i">>
T_sp == <<" ", "x">>
Tokens == {T_abc, T_sp, <<>>}

D_invalid == <<"I", "n", "v", "a", "l", "i", "d", " ">> \o S_RefreshToken
D_lower == <<"r", "e", "f", "r", "e", "s", "h", " ", "t", "o", "k", "e", "n">>
D_nospace == <<"R", "e", "f", "r", "e", "s", "h", "T", "o", "k", "e", "n">>
D_found == S_RefreshToken \o <<" ", "N", "o", "t", " ", "F", "o", "u", "n", "d">>
D_prefix == <<"R", "e", "f", "r", "e", "s", "h", " ", "T", "o", "k", "e">>
Descriptions == {D_invalid, D_lower, D_nospace, D_found, D_prefix, S_RefreshToken, <<>>}

Supabase(error, error_description) ==
    [variant |-> "Supabase", payload |-> error, error_description |-> error_description]

NoReq == [none |-> TRUE]

get_jwt_Request(user_id) == [user_id |-> user_id]

get_jwt_Response(access_token) == [access_token |-> access_token]

SignatureRequest(pubkey, message, timeout) ==
    [pubkey |-> pubkey, message |-> message, timeout |-> timeout]

SignatureResponse(signature) == [signature |-> signature]

execute_Request(instructions, output) == [instructions |-> instructions, output |-> output]

execute_Response(signature) == [signature |-> signature]

\* What an injected handler may answer (the handler is the environment).
AuthOutcomes ==
    {Ok(get_jwt_Response(tok)) : tok \in Tokens}
        \cup {Err(E("UserNotFound", "none")), Err(Supabase("invalid_grant", D_invalid))}

SignerOutcomes ==
    {Ok(SignatureResponse("sig1")), Err(E("Timeout", "none")), Err(E("User", "none")),
     Err(E("Pubkey", "pk1")), Err(E("MailBox", "closed mailbox")),
     Err(E("Other", "boxed"))}

\* What req.instructions.execute(&rpc, signer) may answer, for any batch: a
\* Signature (the only success its type allows), or an error that `?` turns
\* into an execute::Error.
InstructionsOutcomes ==
    {Ok("txsig"), Err(E("TxSimFailed", "none"))}

\* ------------------------------------------------------------------ callers

\* pc: idle | ready (awaiting ready()) | call (admitted, awaiting the response)
\* | done.  resp: what the handle answered; res: what the operation returned.
\* sub, subresp: the signer call made inside execute::simple's handler and
\* its answer.  calls: the calls this invocation issued on its handle.
\* ty, got: the type asked of get::<T>() and what it returned; origin: what
\* new_interflow_origin returned; args: the arguments request_signature was
\* called with.
IdleTask == [pc |-> "idle", op |-> "none", h |-> 0, req |-> NoReq, resp |-> NoResult,
             res |-> NoResult, sub |-> "none", subresp |-> NoResult, calls |-> 0,
             ty |-> "none", got |-> None, origin |-> None, args |-> <<>>]

Handle(h) == handles[h]

\* One budget for all the handles of a context: every call in flight counts
\* against every handle.
InFlight_shared(h) ==
    Cardinality({t \in Tasks : tasks[t].pc = "call"})
  + Cardinality({t \in Tasks : tasks[t].sub = "call"})

\* Calls admitted on handle h and not yet completed, over all clones of it:
\* the callers' own calls, and the signer calls made inside execute::simple's
\* handler through the signer handle it captured.
InFlight(h) ==
    Cardinality({t \in Tasks : tasks[t].pc = "call" /\ tasks[t].h = h})
  + Cardinality({t \in Tasks : tasks[t].sub = "call" /\ Handle(tasks[t].h).signer = h})

\* ServiceExt::ready on a TowerClient: an unimplemented handle is always ready;
\* a from_service handle is ready when its budget allows one more call.
Admits(h) ==
    \/ Handle(h).kind = "unimplemented"
    \/ Handle(h).kind = "from_service" /\ InFlight(h) < Handle(h).size

\* ------------------------------------------------------------------ construction

\* A registry holding values of two distinct types.
TwoTypes == [ty \in {"TyA", "TyB"} |-> IF ty = "TyA" THEN "a1" ELSE "b1"]

\* What the creator of a handle asked for.
Asked(ctor, size) == [ctor |-> ctor, size |-> size]

NotBuilt == Asked("none", 0)

\* The services an executor may inject into from_cfg: the stubs, or a handler
\* behind a budget of k calls.
SignerSvcs ==
    {[svc |-> signer_unimplemented_svc, asked |-> Asked("signer::unimplemented_svc", 0)]}
        \cup {[svc |-> Svc_from_service("signer", "injected", "signer::Error::Worker", k, 0),
               asked |-> Asked("from_service", k)] : k \in 1..MaxSize}

AuthSvcs ==
    {[svc |-> get_jwt_unimplemented_svc, asked |-> Asked("get_jwt::unimplemented_svc", 0)],
     [svc |-> get_jwt_not_allowed, asked |-> Asked("get_jwt::not_allowed", 0)]}
        \cup {[svc |-> Svc_from_service("get_jwt", "injected", "get_jwt::Error::worker", k, 0),
               asked |-> Asked("from_service", k)] : k \in 1..MaxSize}

\* The retried AuthService call.  n0: the budget the policy was built with;
\* req: the caller's request; sent: the requests of the attempts so far;
\* cloned: the copy kept for a retry; hist: the attempts' results; before,
\* decided: the budget the last result was judged with, and the verdict;
\* res: the result returned to the caller.
RetryIdle == [pc |-> "idle", n0 |-> 0, req |-> get_jwt_Request(NIL), sent |-> <<>>,
              cloned |-> None, hist |-> <<>>, before |-> 0, decided |-> "none",
              res |-> NoResult]

\* The executor builds the one context of a flow run with from_cfg (services
\* injected), or a standalone context comes from Context::default().
InitDefault ==
    /\ handles = [h \in HandleIds |->
                    CASE h = SignerH -> Context_default.signer
                      [] h = AuthH -> Context_default.get_jwt
                      [] h = ExecH(Root) -> Context_default.execute
                      [] OTHER -> NoHandle]
    /\ configured = [h \in HandleIds |->
                       CASE h = SignerH -> Asked("signer::unimplemented_svc", 0)
                         [] h = AuthH -> Asked("get_jwt::unimplemented_svc", 0)
                         [] h = ExecH(Root) -> Asked("execute::simple", 1)
                         [] OTHER -> NotBuilt]
    /\ ctxs = [c \in {Root} \cup Tasks |-> IF c = Root THEN Context_default.ctx ELSE NoCtx]

InitFromCfg ==
    \E sig \in SignerSvcs, tok \in AuthSvcs :
        /\ handles = [h \in HandleIds |->
                        CASE h = SignerH -> sig.svc [] h = AuthH -> tok.svc
                          [] OTHER -> NoHandle]
        /\ configured = [h \in HandleIds |->
                           CASE h = SignerH -> sig.asked [] h = AuthH -> tok.asked
                             [] OTHER -> NotBuilt]
        /\ ctxs = [c \in {Root} \cup Tasks |->
                     IF c = Root THEN from_cfg(User("u1"), User("u2"), SignerH, AuthH, TwoTypes)
                     ELSE NoCtx]

Init ==
    /\ InitDefault \/ InitFromCfg
    /\ tasks = [t \in Tasks |-> IdleTask]
    /\ policy = 0
    /\ retry = RetryIdle

\* As InitFromCfg, with both injected services behind an admission budget.
InitBudgets ==
    \E k1 \in 1..MaxSize, k2 \in 1..MaxSize :
        /\ handles = [h \in HandleIds |->
                        CASE h = SignerH ->
                               Svc_from_service("signer", "injected",
                                                "signer::Error::Worker", k1, 0)
                          [] h = AuthH ->
                               Svc_from_service("get_jwt", "injected",
                                                "get_jwt::Error::worker", k2, 0)
                          [] OTHER -> NoHandle]
        /\ configured = [h \in HandleIds |->
                           CASE h = SignerH -> Asked("from_service", k1)
                             [] h = AuthH -> Asked("from_service", k2)
                             [] OTHER -> NotBuilt]
        /\ ctxs = [c \in {Root} \cup Tasks |->
                     IF c = Root THEN from_cfg(User("u1"), User("u2"), SignerH, AuthH, TwoTypes)
                     ELSE NoCtx]

InitConc ==
    /\ InitDefault \/ InitBudgets
    /\ tasks = [t \in Tasks |-> IdleTask]
    /\ policy = 0
    /\ retry = RetryIdle

HasCtx(c) == ctxs[c].signer # 0

\* #[derive(Clone)] for Context: the executor hands caller t a clone of an
\* existing context; the handles inside are shared, not copied.
CloneCtx(t, s) ==
    /\ ~HasCtx(t)
    /\ HasCtx(s)
    /\ ctxs' = [ctxs EXCEPT ![t] = ctxs[s]]
    /\ UNCHANGED <<handles, configured, tasks, policy, retry>>

\* The executor clones a context for a node and attaches a CommandContext
\* bound to an ExecutionService it builds with execute::simple(&ctx, size).
CloneForNodeSimple(t, s, size, flow_run_id, node_id, times) ==
    /\ ~HasCtx(t)
    /\ HasCtx(s)
    /\ handles' = [handles EXCEPT ![ExecH(t)] = execute_simple(ctxs[s], size)]
    /\ configured' = [configured EXCEPT ![ExecH(t)] = Asked("execute::simple", size)]
    /\ ctxs' = [ctxs EXCEPT ![t] =
                  [ctxs[s] EXCEPT !.command =
                      Some(CommandContext(ExecH(t), flow_run_id, node_id, times))]]
    /\ UNCHANGED <<tasks, policy, retry>>

\* ... or bound to execute::unimplemented_svc().
CloneForNodeUnimplemented(t, s, flow_run_id, node_id, times) ==
    /\ ~HasCtx(t)
    /\ HasCtx(s)
    /\ handles' = [handles EXCEPT ![ExecH(t)] = execute_unimplemented_svc]
    /\ configured' = [configured EXCEPT ![ExecH(t)] = Asked("execute::unimplemented_svc", 0)]
    /\ ctxs' = [ctxs EXCEPT ![t] =
                  [ctxs[s] EXCEPT !.command =
                      Some(CommandContext(ExecH(t), flow_run_id, node_id, times))]]
    /\ UNCHANGED <<tasks, policy, retry>>

\* ------------------------------------------------------------------ Context operations

\* anyhow::Error::from(e): the signer error boxed inside an anyhow::Error.
anyhow(e) == [variant |-> "anyhow", payload |-> e.variant, error_description |-> <<>>,
              source |-> e]

\* Context::execute answering a missing CommandContext with the stub's error.
Context_execute_unimplemented(ctx, instructions, output) ==
    IF ctx.command.some
    THEN [IdleTask EXCEPT !.pc = "ready", !.op = "execute", !.h = ctx.command.val.svc,
                          !.req = execute_Request(instructions, output)]
    ELSE [IdleTask EXCEPT !.pc = "done", !.op = "execute",
                          !.res = Err(execute_Error_other("unimplemented"))]

\* Context::execute issuing call() without awaiting ready().
Context_execute_noready(ctx, instructions, output) ==
    IF ctx.command.some
    THEN [IdleTask EXCEPT !.pc = "call", !.op = "execute", !.h = ctx.command.val.svc,
                          !.req = execute_Request(instructions, output), !.calls = 1]
    ELSE [IdleTask EXCEPT !.pc = "done", !.op = "execute",
                          !.res = Err(E("NotAvailable", "none"))]

\* Context::execute up to its first suspension point.
Context_execute(ctx, instructions, output) ==
    IF ctx.command.some
    THEN [IdleTask EXCEPT !.pc = "ready", !.op = "execute", !.h = ctx.command.val.svc,
                          !.req = execute_Request(instructions, output)]
    ELSE [IdleTask EXCEPT !.pc = "done", !.op = "execute",
                          !.res = Err(E("NotAvailable", "none"))]

\* request_signature refusing, as execute does, a context without
\* CommandContext.
Context_request_signature_needs_command(ctx, pubkey, message, timeout) ==
    IF ctx.command.some
    THEN [IdleTask EXCEPT !.pc = "ready", !.op = "request_signature", !.h = ctx.signer,
                          !.req = SignatureRequest(pubkey, message, timeout)]
    ELSE [IdleTask EXCEPT !.pc = "done", !.op = "request_signature",
                          !.res = Err(anyhow(E("NotAvailable", "none")))]

\* Context::request_signature up to its first suspension point: s is a clone
\* of self.signer.
Context_request_signature(ctx, pubkey, message, timeout) ==
    [IdleTask EXCEPT !.pc = "ready", !.op = "request_signature", !.h = ctx.signer,
                     !.req = SignatureRequest(pubkey, message, timeout)]

\* get_jwt_header asking for the token of the user who started the run.
Context_get_jwt_header_started_by(ctx) ==
    [IdleTask EXCEPT !.pc = "ready", !.op = "get_jwt_header", !.h = ctx.get_jwt,
                     !.req = get_jwt_Request(ctx.started_by.id)]

\* Context::get_jwt_header up to its first suspension point.
Context_get_jwt_header(ctx) ==
    [IdleTask EXCEPT !.pc = "ready", !.op = "get_jwt_header", !.h = ctx.get_jwt,
                     !.req = get_jwt_Request(ctx.flow_owner.id)]

\* FlowRunOrigin::Interflow { flow_run_id, node_id, times }
Interflow(flow_run_id, node_id, times) ==
    [variant |-> "Interflow", flow_run_id |-> flow_run_id, node_id |-> node_id,
     times |-> times]

\* new_interflow_origin counting the nested run as a further attempt.
Context_new_interflow_origin_next_times(ctx) ==
    IF ctx.command.some
    THEN Some(Interflow(ctx.command.val.flow_run_id, ctx.command.val.node_id,
                        ctx.command.val.times + 1))
    ELSE None

\* Context::new_interflow_origin
Context_new_interflow_origin(ctx) ==
    IF ctx.command.some
    THEN Some(Interflow(ctx.command.val.flow_run_id, ctx.command.val.node_id,
                        ctx.command.val.times))
    ELSE None

\* Context::get looking the value up whatever type is asked for.
Context_get_any_type(ctx, T) ==
    IF DOMAIN ctx.extensions = {} THEN None
    ELSE Some(ctx.extensions[CHOOSE ty \in DOMAIN ctx.extensions : TRUE])

\* Context::get::<T>()
Context_get(ctx, T) == Extensions_get(ctx.extensions, T)

\* get_jwt_header building the header without the space.
get_jwt_header_result_nospace(resp) ==
    IF resp.ok THEN Ok(<<"B", "e", "a", "r", "e", "r">> \o resp.val.access_token)
    ELSE Err(resp.err)

\* get_jwt_header wrapping the failure instead of passing it on.
get_jwt_header_result_wrapped(resp) ==
    IF resp.ok THEN Ok(S_Bearer \o resp.val.access_token)
    ELSE Err(get_jwt_Error_other(resp.err.variant))

\* What get_jwt_header returns for the handle's answer.
get_jwt_header_result(resp) ==
    IF resp.ok THEN Ok(S_Bearer \o resp.val.access_token) ELSE Err(resp.err)

\* What execute returns for the handle's answer.
execute_result(resp) == resp

\* What request_signature returns for the handle's answer.
request_signature_result(resp) ==
    IF resp.ok THEN Ok(resp.val.signature) ELSE Err(anyhow(resp.err))

OpResult(op, resp) ==
    CASE op = "execute" -> execute_result(resp)
      [] op = "request_signature" -> request_signature_result(resp)
      [] op = "get_jwt_header" -> get_jwt_header_result(resp)

\* The handler closure of execute::simple, given what
\* req.instructions.execute(&rpc, signer) answered.
simple_handle(o) ==
    IF o.ok THEN Ok(execute_Response(Some(o.val))) ELSE Err(o.err)

\* Context::execute counting the call as a further attempt of the node
\* through its &mut self.command.
Execute_counts_attempt(t, instructions, output) ==
    /\ tasks[t].pc = "idle"
    /\ HasCtx(t)
    /\ tasks' = [tasks EXCEPT ![t] = Context_execute(ctxs[t], instructions, output)]
    /\ ctxs' = [ctxs EXCEPT ![t] =
                  IF ctxs[t].command.some
                  THEN [ctxs[t] EXCEPT !.command.val.times = @ + 1]
                  ELSE ctxs[t]]
    /\ UNCHANGED <<handles, configured, policy, retry>>

Execute(t, instructions, output) ==
    /\ tasks[t].pc = "idle"
    /\ HasCtx(t)
    /\ tasks' = [tasks EXCEPT ![t] = Context_execute(ctxs[t], instructions, output)]
    /\ UNCHANGED <<handles, configured, ctxs, policy, retry>>

RequestSignature(t, pubkey, message, timeout) ==
    /\ tasks[t].pc = "idle"
    /\ HasCtx(t)
    /\ tasks' = [tasks EXCEPT ![t] =
                   [Context_request_signature(ctxs[t], pubkey, message, timeout)
                        EXCEPT !.args = <<pubkey, message, timeout>>]]
    /\ UNCHANGED <<handles, configured, ctxs, policy, retry>>

GetJwtHeader(t) ==
    /\ tasks[t].pc = "idle"
    /\ HasCtx(t)
    /\ tasks' = [tasks EXCEPT ![t] = Context_get_jwt_header(ctxs[t])]
    /\ UNCHANGED <<handles, configured, ctxs, policy, retry>>

\* new_interflow_origin(&self): no suspension point, returns at once.
NewInterflowOrigin(t) ==
    /\ tasks[t].pc = "idle"
    /\ HasCtx(t)
    /\ tasks' = [tasks EXCEPT ![t] =
                   [IdleTask EXCEPT !.pc = "done", !.op = "new_interflow_origin",
                                    !.origin = Context_new_interflow_origin(ctxs[t])]]
    /\ UNCHANGED <<handles, configured, ctxs, policy, retry>>

\* get::<T>(&self): no suspension point, returns at once.
Get(t, T) ==
    /\ tasks[t].pc = "idle"
    /\ HasCtx(t)
    /\ tasks' = [tasks EXCEPT ![t] =
                   [IdleTask EXCEPT !.pc = "done", !.op = "get", !.ty = T,
                                    !.got = Context_get(ctxs[t], T)]]
    /\ UNCHANGED <<handles, configured, ctxs, policy, retry>>

\* ready() returns Ok: the caller is admitted and issues call(req).
Ready(t) ==
    /\ tasks[t].pc = "ready"
    /\ Admits(tasks[t].h)
    /\ tasks' = [tasks EXCEPT ![t].pc = "call", ![t].calls = @ + 1]
    /\ UNCHANGED <<handles, configured, ctxs, policy, retry>>

\* ready() returns Err: an injected service reports, when polled for
\* readiness, that it failed; the failure goes through the worker translator.
ReadyErr(t) ==
    LET h == tasks[t].h
        resp == Err(Translate(Handle(h).worker, "closed"))
    IN  /\ tasks[t].pc = "ready"
        /\ Handle(h).kind = "from_service"
        /\ Handle(h).handler = "injected"
        /\ InFlight(h) < Handle(h).size
        /\ tasks' = [tasks EXCEPT ![t].pc = "done", ![t].resp = resp,
                                  ![t].res = OpResult(tasks[t].op, resp)]
        /\ UNCHANGED <<handles, configured, ctxs, policy, retry>>

\* What handle h may answer to a call.
ResponsesOf(h) ==
    LET H == Handle(h)
    IN  CASE H.kind = "unimplemented" -> {Err(H.error)}
          [] H.handler = "injected" /\ H.cap = "get_jwt" ->
                AuthOutcomes \cup {Err(Translate(H.worker, "panic"))}
          [] H.handler = "injected" /\ H.cap = "signer" ->
                SignerOutcomes \cup {Err(Translate(H.worker, "panic"))}
          [] H.handler = "simple" ->
                {simple_handle(o) : o \in InstructionsOutcomes}
                    \cup {Err(Translate(H.worker, "panic"))}

\* The call completes (with success or with an error) and frees its slot.
Respond(t, resp) ==
    /\ tasks[t].pc = "call"
    /\ tasks[t].sub \in {"none", "done"}
    /\ resp \in ResponsesOf(tasks[t].h)
    /\ tasks' = [tasks EXCEPT ![t].pc = "done", ![t].resp = resp,
                              ![t].res = OpResult(tasks[t].op, resp)]
    /\ UNCHANGED <<handles, configured, ctxs, policy, retry>>

RespondAny(t) ==
    /\ tasks[t].pc = "call"
    /\ \E resp \in ResponsesOf(tasks[t].h) : Respond(t, resp)

\* One success and one failure among the answers the handle may give.
Brief(S) ==
    LET oks == {r \in S : r.ok}
        errs == {r \in S : ~r.ok}
    IN  (IF oks = {} THEN {} ELSE {CHOOSE r \in oks : TRUE})
            \cup (IF errs = {} THEN {} ELSE {CHOOSE r \in errs : TRUE})

RespondBrief(t) ==
    /\ tasks[t].pc = "call"
    /\ \E resp \in Brief(ResponsesOf(tasks[t].h)) : Respond(t, resp)

\* Inside execute::simple's handler, Instructions::execute asks the captured
\* signer handle for a signature (at most once per call here).
SimpleSign(t) ==
    /\ tasks[t].pc = "call"
    /\ Handle(tasks[t].h).handler = "simple"
    /\ tasks[t].sub = "none"
    /\ tasks' = [tasks EXCEPT ![t].sub = "ready"]
    /\ UNCHANGED <<handles, configured, ctxs, policy, retry>>

\* The handler's signer call waiting for a slot of the execution handle it
\* runs on.
SimpleSignReady_on_exec(t) ==
    /\ tasks[t].sub = "ready"
    /\ Admits(tasks[t].h)
    /\ tasks' = [tasks EXCEPT ![t].sub = "call"]
    /\ UNCHANGED <<handles, configured, ctxs, policy, retry>>

SimpleSignReady(t) ==
    /\ tasks[t].sub = "ready"
    /\ Admits(Handle(tasks[t].h).signer)
    /\ tasks' = [tasks EXCEPT ![t].sub = "call"]
    /\ UNCHANGED <<handles, configured, ctxs, policy, retry>>

\* The signer call made inside the handler completes and frees its slot.
SimpleSignRespond(t, resp) ==
    /\ tasks[t].sub = "call"
    /\ resp \in ResponsesOf(Handle(tasks[t].h).signer)
    /\ tasks' = [tasks EXCEPT ![t].sub = "done", ![t].subresp = resp]
    /\ UNCHANGED <<handles, configured, ctxs, policy, retry>>

SimpleSignRespondAny(t) ==
    /\ tasks[t].sub = "call"
    /\ \E resp \in ResponsesOf(Handle(tasks[t].h).signer) : SimpleSignRespond(t, resp)

SimpleSignRespondBrief(t) ==
    /\ tasks[t].sub = "call"
    /\ \E resp \in Brief(ResponsesOf(Handle(tasks[t].h).signer)) :
          SimpleSignRespond(t, resp)

\* The caller takes the result; it may start another operation afterwards.
Return(t) ==
    /\ tasks[t].pc = "done"
    /\ tasks' = [tasks EXCEPT ![t] = IdleTask]
    /\ UNCHANGED <<handles, configured, ctxs, policy, retry>>

\* No caller is inside an operation.
Quiet == \A u \in Tasks : tasks[u].pc = "idle"

Construct ==
    \/ \E t \in Tasks, s \in {Root} \cup Tasks : CloneCtx(t, s)
    \/ \E t \in Tasks, s \in {Root} \cup Tasks, size \in 1..MaxSize,
          r \in FlowRunIds, n \in NodeIds, k \in TimesSet :
            CloneForNodeSimple(t, s, size, r, n, k)
    \/ \E t \in Tasks, s \in {Root} \cup Tasks,
          r \in FlowRunIds, n \in NodeIds, k \in TimesSet :
            CloneForNodeUnimplemented(t, s, r, n, k)

Progress ==
    \/ \E t \in Tasks : Ready(t)
    \/ \E t \in Tasks : ReadyErr(t)
    \/ \E t \in Tasks : RespondAny(t)
    \/ \E t \in Tasks : SimpleSign(t)
    \/ \E t \in Tasks : SimpleSignReady(t)
    \/ \E t \in Tasks : SimpleSignRespondAny(t)
    \/ \E t \in Tasks : Return(t)

\* The executor runs one node at a time: every request and every handler
\* outcome, no two operations in progress together.
Next ==
    \/ Construct
    \/ Quiet /\ \E t \in Tasks, i \in Instrs, o \in Outputs : Execute(t, i, o)
    \/ Quiet /\ \E t \in Tasks, p \in Pubkeys, m \in Messages, d \in Timeouts :
            RequestSignature(t, p, m, d)
    \/ Quiet /\ \E t \in Tasks : GetJwtHeader(t)
    \/ Quiet /\ \E t \in Tasks : NewInterflowOrigin(t)
    \/ Quiet /\ \E t \in Tasks, T \in TypeIds : Get(t, T)
    \/ Progress

Spec == Init /\ [][Next]_vars

\* The executor runs the nodes concurrently: any interleaving of the callers'
\* suspension points, one request per operation.
NextConc ==
    \/ \E t \in Tasks, s \in {Root} \cup Tasks : CloneCtx(t, s)
    \/ \E t \in Tasks, size \in 1..MaxSize : CloneForNodeSimple(t, Root, size, "r1", "n1", 1)
    \/ \E t \in Tasks : Execute(t, "i1", "o1")
    \/ \E t \in Tasks : RequestSignature(t, "pk1", "m1", 30)
    \/ \E t \in Tasks : GetJwtHeader(t)
    \/ \E t \in Tasks : Ready(t)
    \/ \E t \in Tasks : ReadyErr(t)
    \/ \E t \in Tasks : RespondBrief(t)
    \/ \E t \in Tasks : SimpleSign(t)
    \/ \E t \in Tasks : SimpleSignReady(t)
    \/ \E t \in Tasks : SimpleSignRespondBrief(t)
    \/ \E t \in Tasks : Return(t)

SpecConc == InitConc /\ [][NextConc]_vars

\* Concurrent callers under fair scheduling: the injected SignerService and
\* AuthService sit behind budgets, the first node's context carries a simple
\* ExecutionService which the other callers' clones share, and callers go on
\* calling for ever.
InitLive ==
    /\ \E k \in 1..MaxSize :
          /\ handles = [h \in HandleIds |->
                          CASE h = SignerH ->
                                 Svc_from_service("signer", "injected",
                                                  "signer::Error::Worker", k, 0)
                            [] h = AuthH ->
                                 Svc_from_service("get_jwt", "injected",
                                                  "get_jwt::Error::worker", k, 0)
                            [] OTHER -> NoHandle]
          /\ configured = [h \in HandleIds |->
                             CASE h = SignerH -> Asked("from_service", k)
                               [] h = AuthH -> Asked("from_service", k)
                               [] OTHER -> NotBuilt]
    /\ ctxs = [c \in {Root} \cup Tasks |->
                 IF c = Root THEN from_cfg(User("u1"), User("u2"), SignerH, AuthH, TwoTypes)
                 ELSE NoCtx]
    /\ tasks = [t \in Tasks |-> IdleTask]
    /\ policy = 0
    /\ retry = RetryIdle

NextLive ==
    \/ \E size \in 1..MaxSize : CloneForNodeSimple(1, Root, size, "r1", "n1", 1)
    \/ \E t \in Tasks : CloneCtx(t, 1)
    \/ \E t \in Tasks : Execute(t, "i1", "o1")
    \/ \E t \in Tasks : RequestSignature(t, "pk1", "m1", 30)
    \/ \E t \in Tasks : GetJwtHeader(t)
    \/ \E t \in Tasks : Ready(t)
    \/ \E t \in Tasks : RespondBrief(t)
    \/ \E t \in Tasks : SimpleSign(t)
    \/ \E t \in Tasks : SimpleSignReady(t)
    \/ \E t \in Tasks : SimpleSignRespondBrief(t)
    \/ \E t \in Tasks : Return(t)

\* Handlers terminate (every call in flight is answered), a handler that asks
\* for a signature goes on to await the signer, and a freed slot goes to a
\* waiting caller in turn, so no waiting caller is passed over for ever.
Fairness ==
    \A t \in Tasks :
        /\ WF_vars(RespondBrief(t))
        /\ WF_vars(SimpleSignRespondBrief(t))
        /\ SF_vars(Ready(t))
        /\ SF_vars(SimpleSignReady(t))

SpecLive == InitLive /\ [][NextLive]_vars /\ Fairness

\* The executor's choices of identities and registry, and the lookups a node
\* makes on its clone: every pair of users, every registry, attempt counters
\* above 0.
TimesLookup == {1, 2}

InitLookup ==
    /\ \/ InitDefault
       \/ \E fo \in UserIds, sb \in UserIds, ext \in Registries, tok \in AuthSvcs :
            /\ handles = [h \in HandleIds |->
                            CASE h = SignerH -> signer_unimplemented_svc
                              [] h = AuthH -> tok.svc
                              [] OTHER -> NoHandle]
            /\ configured = [h \in HandleIds |->
                               CASE h = SignerH -> Asked("signer::unimplemented_svc", 0)
                                 [] h = AuthH -> tok.asked
                                 [] OTHER -> NotBuilt]
            /\ ctxs = [c \in {Root} \cup Tasks |->
                         IF c = Root
                         THEN from_cfg(User(fo), User(sb), SignerH, AuthH, ext)
                         ELSE NoCtx]
    /\ tasks = [t \in Tasks |-> IdleTask]
    /\ policy = 0
    /\ retry = RetryIdle

NextLookup ==
    \/ \E t \in Tasks : CloneCtx(t, Root)
    \/ \E t \in Tasks, k \in TimesLookup : CloneForNodeSimple(t, Root, 1, "r1", "n1", k)
    \/ Quiet /\ \E t \in Tasks : GetJwtHeader(t)
    \/ Quiet /\ \E t \in Tasks : NewInterflowOrigin(t)
    \/ Quiet /\ \E t \in Tasks, T \in TypeIds : Get(t, T)
    \/ \E t \in Tasks : Ready(t)
    \/ \E t \in Tasks : RespondBrief(t)
    \/ \E t \in Tasks : Return(t)

SpecLookup == InitLookup /\ [][NextLookup]_vars

\* ------------------------------------------------------------------ get_jwt::RetryPolicy

\* str::contains
contains(s, pat) ==
    \E i \in 1..(Len(s) - Len(pat) + 1) : SubSeq(s, i, i + Len(pat) - 1) = pat

\* impl Default for RetryPolicy
RetryPolicy_default == 1

\* RetryPolicy::retry that stops one retry early.
RetryPolicy_retry_offbyone(n, req, result) ==
    IF /\ ~result.ok
       /\ result.err.variant = "Supabase"
       /\ contains(result.err.error_description, S_RefreshToken)
       /\ n > 1
    THEN Some(n - 1)
    ELSE None

\* RetryPolicy::retry that retries every Supabase failure.
RetryPolicy_retry_anysupabase(n, req, result) ==
    IF /\ ~result.ok
       /\ result.err.variant = "Supabase"
       /\ n > 0
    THEN Some(n - 1)
    ELSE None

\* RetryPolicy::retry that does not look at the remaining budget.
RetryPolicy_retry_nobudget(n, req, result) ==
    IF /\ ~result.ok
       /\ result.err.variant = "Supabase"
       /\ contains(result.err.error_description, S_RefreshToken)
    THEN Some(n - 1)
    ELSE None

\* RetryPolicy::retry handing on the budget it has, not one less.
RetryPolicy_retry_keeps_budget(n, req, result) ==
    IF /\ ~result.ok
       /\ result.err.variant = "Supabase"
       /\ contains(result.err.error_description, S_RefreshToken)
       /\ n > 0
    THEN Some(n)
    ELSE None

\* RetryPolicy::retry(&self, _, result): Some(next policy) to retry, None to
\* stop.  n is self.0.
RetryPolicy_retry(n, req, result) ==
    IF /\ ~result.ok
       /\ result.err.variant = "Supabase"
       /\ contains(result.err.error_description, S_RefreshToken)
       /\ n > 0
    THEN Some(n - 1)
    ELSE None

\* RetryPolicy::clone_request
RetryPolicy_clone_request(req) == Some(req)

\* Every result an attempt of the AuthService handler may give.
AuthResults ==
    {Ok(get_jwt_Response(T_abc))}
        \cup {Err(E(v, "none")) : v \in {"NotAllowed", "UserNotFound", "WrongRecipient"}}
        \cup {Err(E(v, "boxed")) : v \in {"Worker", "MailBox", "Other"}}
        \cup {Err(Supabase("invalid_grant", d)) : d \in Descriptions}

\* One AuthService call under RetryPolicy(n), n = the default or any budget
\* up to MaxRetry, for any user.
InitRetry ==
    /\ InitDefault
    /\ tasks = [t \in Tasks |-> IdleTask]
    /\ policy \in {RetryPolicy_default} \cup 0..MaxRetry
    /\ \E uid \in UserIds : retry = [RetryIdle EXCEPT !.n0 = policy,
                                                      !.req = get_jwt_Request(uid)]

\* The retry layer takes the call: it keeps a clone of the request and sends
\* the request to the handler (attempt 1).
RetryCall ==
    /\ retry.pc = "idle"
    /\ retry' = [retry EXCEPT !.pc = "attempt", !.sent = <<retry.req>>,
                              !.cloned = RetryPolicy_clone_request(retry.req)]
    /\ UNCHANGED <<handles, configured, ctxs, tasks, policy>>

\* The attempt answered `result`: the policy is asked; on Some(p) the layer
\* adopts p and sends the kept clone (keeping a clone of it in turn), on None
\* it returns result to the caller.
RetryAttemptDone(result) ==
    LET verdict == IF retry.cloned.some
                   THEN RetryPolicy_retry(policy, retry.cloned.val, result)
                   ELSE None
        judged == [retry EXCEPT !.hist = Append(retry.hist, result), !.before = policy]
    IN  /\ retry.pc = "attempt"
        /\ Len(retry.sent) <= MaxRetry + 2
        /\ IF verdict.some
           THEN /\ policy' = verdict.val
                /\ retry' = [judged EXCEPT !.decided = "retry",
                                           !.sent = Append(retry.sent, retry.cloned.val),
                                           !.cloned = RetryPolicy_clone_request(retry.cloned.val)]
           ELSE /\ policy' = policy
                /\ retry' = [judged EXCEPT !.decided = "terminal", !.pc = "done",
                                           !.res = result]
        /\ UNCHANGED <<handles, configured, ctxs, tasks>>

NextRetry ==
    \/ RetryCall
    \/ \E result \in AuthResults : RetryAttemptDone(result)

SpecRetry == InitRetry /\ [][NextRetry]_vars

\* The same call when the handler answers every attempt.
SpecRetryFair == SpecRetry /\ WF_vars(NextRetry)

\* ================================================================== claims

BudgetHandles == {h \in HandleIds : handles[h].kind = "from_service"}

\* C1: for every handle built from a handler with bound K, the calls admitted
\* and not yet completed, counted over all clones of the handle (contexts'
\* clones, the clone request_signature makes, the signer clone inside
\* execute::simple's handler), never exceed the K its creator asked for.
C1_InFlightWithinBound ==
    \A h \in BudgetHandles : InFlight(h) <= configured[h].size

\* C1 witness: the signer budget is used up by a signer call made inside
\* execute::simple's handler while another context's request_signature waits
\* on the same handle.
C1_Witness ==
    \E t, u \in Tasks :
        /\ t # u
        /\ tasks[t].sub = "call"
        /\ tasks[u].op = "request_signature"
        /\ tasks[u].pc = "ready"
        /\ tasks[u].h = Handle(tasks[t].h).signer
        /\ Handle(tasks[u].h).kind = "from_service"
        /\ InFlight(tasks[u].h) = configured[tasks[u].h].size

\* The handle of caller t's current operation is one with a budget, and the
\* budget is used up.
Exhausted(t) ==
    /\ tasks[t].h \in BudgetHandles
    /\ InFlight(tasks[t].h) >= configured[tasks[t].h].size

\* C2: while K calls are in flight on a handle with bound K, a caller awaiting
\* ready() on it is neither admitted nor answered (no error, no result): it
\* stays suspended in every step taken from such a state; and whenever a
\* caller is admitted on a handle with a budget, fewer than K calls were in
\* flight on it, so with K = 1 the second call starts after the first ended.
C2_SuspendsUntilCompletion ==
    [][\A t \in Tasks :
          /\ (tasks[t].pc = "ready" /\ Exhausted(t)) => tasks'[t] = tasks[t]
          /\ (tasks[t].pc # "call" /\ tasks'[t].pc = "call"
                /\ tasks'[t].h \in BudgetHandles)
                => InFlight(tasks'[t].h) < configured[tasks'[t].h].size]_vars

\* C2 witness: two clones of one context execute on a handle of bound 1; the
\* first is in flight and the second is suspended in ready().
C2_Witness ==
    \E t, u \in Tasks :
        /\ t # u
        /\ tasks[t].op = "execute" /\ tasks[t].pc = "call"
        /\ tasks[u].op = "execute" /\ tasks[u].pc = "ready"
        /\ tasks[u].h = tasks[t].h
        /\ configured[tasks[t].h].size = 1
        /\ Exhausted(u)

\* The error each stub constructor configures.
StubError(ctor) ==
    CASE ctor = "get_jwt::not_allowed" -> E("NotAllowed", "none")
      [] ctor = "get_jwt::unimplemented_svc" -> E("Other", "unimplemented")
      [] ctor = "signer::unimplemented_svc" -> E("Other", "unimplemented")
      [] ctor = "execute::unimplemented_svc" -> E("Other", "unimplemented")

StubCtors == {"get_jwt::not_allowed", "get_jwt::unimplemented_svc",
              "signer::unimplemented_svc", "execute::unimplemented_svc"}

\* Caller t's operation goes through a handle built by a stub constructor.
OnStub(t) == tasks[t].h # 0 /\ configured[tasks[t].h].ctor \in StubCtors

\* C3: a handle built by a stub constructor (get_jwt::unimplemented_svc,
\* get_jwt::not_allowed, signer::unimplemented_svc, execute::unimplemented_svc)
\* answers every call, whatever the request and whatever was called before,
\* with its one configured error (NotAllowed for not_allowed, the
\* "unimplemented" error for the others) and never with a success; the
\* handle has no handler to run (and no signer call is made for it), and a
\* step of such a call changes nothing but the caller's own position.  The
\* same holds for the signer call execute::simple's handler makes on a stub.
C3_StubAlwaysFails ==
    [][/\ \A t \in Tasks :
             (tasks'[t].h # 0 /\ configured'[tasks'[t].h].ctor \in StubCtors
                /\ tasks'[t] # tasks[t])
             => /\ tasks'[t].sub = "none"
                /\ handles'[tasks'[t].h].handler = "none"
                /\ (tasks'[t].pc = "done" =>
                       /\ tasks'[t].resp = Err(StubError(configured'[tasks'[t].h].ctor))
                       /\ ~tasks'[t].res.ok
                       /\ tasks'[t].calls = 1)
                /\ handles' = handles /\ ctxs' = ctxs /\ configured' = configured
                /\ \A u \in Tasks \ {t} : tasks'[u] = tasks[u]
       /\ \A v \in Tasks :
             (tasks[v].sub = "call" /\ tasks'[v].sub = "done"
                /\ configured[Handle(tasks[v].h).signer].ctor \in StubCtors)
             => tasks'[v].subresp =
                    Err(StubError(configured[Handle(tasks[v].h).signer].ctor))]_vars

\* C3 witness: a call on the handle built by get_jwt::not_allowed has been
\* answered.
C3_Witness ==
    \E t \in Tasks :
        /\ tasks[t].pc = "done"
        /\ OnStub(t)
        /\ configured[tasks[t].h].ctor = "get_jwt::not_allowed"
        /\ tasks[t].res = Err(E("NotAllowed", "none"))

\* C7: execute on a context without CommandContext (as from_cfg leaves it)
\* returns Err(NotAvailable) at once, for any instructions and output: no
\* handle is named, ready() is never awaited, no call is issued, no handler
\* runs; with a CommandContext, execute goes to that CommandContext's
\* ExecutionService and returns what it answers.
C7_ExecuteNeedsCommand ==
    \A t \in Tasks :
        tasks[t].op = "execute" =>
            IF ctxs[t].command.some
            THEN /\ tasks[t].h = ctxs[t].command.val.svc
                 /\ handles[tasks[t].h].cap = "execute"
                 /\ tasks[t].pc = "done" => tasks[t].res = tasks[t].resp
            ELSE /\ tasks[t].pc = "done"
                 /\ tasks[t].res = Err(E("NotAvailable", "none"))
                 /\ tasks[t].h = 0
                 /\ tasks[t].calls = 0
                 /\ tasks[t].sub = "none"

\* C7 witness: execute has returned on a clone of a from_cfg context, which
\* has no CommandContext.
C7_Witness ==
    \E t \in Tasks :
        /\ tasks[t].op = "execute"
        /\ tasks[t].pc = "done"
        /\ ~ctxs[t].command.some
        /\ ctxs[t] = ctxs[Root]
        /\ tasks[t].req = NoReq

\* The root context was built by Context::default().
RootIsDefault == configured[ExecH(Root)].ctor = "execute::simple"

\* C8: Context::default() has the Signer and Auth stubs, the nil identity as
\* flow_owner and started_by, and a CommandContext with nil flow_run_id, nil
\* node_id and times = 0 bound to a simple ExecutionService of concurrency 1;
\* so execute on it (or on a clone of it) goes to the simple strategy and does
\* not fail for want of a CommandContext.
C8_DefaultContext ==
    RootIsDefault =>
        /\ handles[SignerH].kind = "unimplemented" /\ handles[SignerH].cap = "signer"
        /\ handles[AuthH].kind = "unimplemented" /\ handles[AuthH].cap = "get_jwt"
        /\ ctxs[Root].signer = SignerH /\ ctxs[Root].get_jwt = AuthH
        /\ ctxs[Root].flow_owner.id = NIL /\ ctxs[Root].started_by.id = NIL
        /\ ctxs[Root].command = Some([svc |-> ExecH(Root), flow_run_id |-> NIL,
                                      node_id |-> NIL, times |-> 0])
        /\ handles[ExecH(Root)].kind = "from_service"
        /\ handles[ExecH(Root)].handler = "simple"
        /\ handles[ExecH(Root)].size = 1
        /\ \A t \in Tasks :
              (ctxs[t] = ctxs[Root] /\ tasks[t].op = "execute") =>
                  /\ tasks[t].h = ExecH(Root)
                  /\ tasks[t].pc = "done" => tasks[t].calls = 1

\* C8 witness: execute on a clone of the default context has been answered by
\* the simple strategy.
C8_Witness ==
    /\ RootIsDefault
    /\ \E t \in Tasks :
          /\ ctxs[t] = ctxs[Root]
          /\ tasks[t].op = "execute"
          /\ tasks[t].pc = "done"
          /\ tasks[t].h = ExecH(Root)
          /\ tasks[t].res.ok

\* C9: when the AuthService answers with access token tok, get_jwt_header
\* returns the characters B e a r e r, one space, then tok, and nothing else;
\* for tok = abc.def.ghi that is "Bearer abc.def.ghi".
C9_BearerHeader ==
    \A t \in Tasks :
        (tasks[t].op = "get_jwt_header" /\ tasks[t].pc = "done" /\ tasks[t].resp.ok) =>
            LET tok == tasks[t].resp.val.access_token
                hdr == tasks[t].res.val
            IN  /\ tasks[t].res.ok
                /\ Len(hdr) = 7 + Len(tok)
                /\ SubSeq(hdr, 1, 7) = <<"B", "e", "a", "r", "e", "r", " ">>
                /\ SubSeq(hdr, 8, Len(hdr)) = tok
                /\ tok = <<"a", "b", "c", ".", "d", "e", "f", ".", "g", "h", "i">> =>
                      hdr = <<"B", "e", "a", "r", "e", "r", " ", "a", "b", "c", ".",
                              "d", "e", "f", ".", "g", "h", "i">>

\* C9 witness: get_jwt_header has returned for the token abc.def.ghi.
C9_Witness ==
    \E t \in Tasks :
        /\ tasks[t].op = "get_jwt_header"
        /\ tasks[t].pc = "done"
        /\ tasks[t].resp = Ok(get_jwt_Response(T_abc))

\* C10: when the AuthService fails, at ready() or at call(), get_jwt_header
\* returns that very error (same variant, same payload) and no header, and
\* the invocation has issued at most one call on the handle.
C10_AuthErrorUnchanged ==
    \A t \in Tasks :
        (tasks[t].op = "get_jwt_header" /\ tasks[t].pc = "done" /\ ~tasks[t].resp.ok) =>
            /\ ~tasks[t].res.ok
            /\ tasks[t].res.err = tasks[t].resp.err
            /\ tasks[t].calls <= 1

\* C10 witness: get_jwt_header has returned the provider's Supabase failure
\* after one call.
C10_Witness ==
    \E t \in Tasks :
        /\ tasks[t].op = "get_jwt_header"
        /\ tasks[t].pc = "done"
        /\ tasks[t].calls = 1
        /\ tasks[t].res = Err(Supabase("invalid_grant", D_invalid))

\* The provider descriptions of the model that hold the text "Refresh Token".
MarkedDescriptions == {D_invalid, D_found, S_RefreshToken}

\* A Supabase failure whose error_description holds "Refresh Token".
IsMarked(result) ==
    /\ ~result.ok
    /\ result.err.variant = "Supabase"
    /\ result.err.error_description \in MarkedDescriptions

LastResult == retry.hist[Len(retry.hist)]

\* C4: under RetryPolicy(n), when every attempt fails with a Supabase error
\* whose description holds "Refresh Token", the call makes n retries (n + 1
\* attempts), every attempt carries the caller's request, and the error of
\* attempt n + 1 is what the caller gets; with the default policy that is
\* one retry.
C4_RetriesExactlyN ==
    /\ \A i \in 1..Len(retry.sent) : retry.sent[i] = retry.req
    /\ (\A i \in 1..Len(retry.hist) : IsMarked(retry.hist[i])) =>
          /\ Len(retry.sent) <= retry.n0 + 1
          /\ retry.pc = "done" =>
                /\ Len(retry.sent) = retry.n0 + 1
                /\ Len(retry.hist) = retry.n0 + 1
                /\ retry.res = retry.hist[retry.n0 + 1]
                /\ retry.n0 = 1 => Len(retry.sent) = 2

\* C4 witness: a call under the default policy has ended after two attempts
\* that both failed with the marker.
C4_Witness ==
    /\ retry.pc = "done"
    /\ retry.n0 = RetryPolicy_default
    /\ Len(retry.hist) = 2
    /\ \A i \in 1..2 : IsMarked(retry.hist[i])
    /\ retry.req.user_id = "u1"

\* C5: the policy stops (no retry), whatever the budget n >= 0, on a success,
\* on an error of any variant but Supabase, and on a Supabase error whose
\* description does not hold "Refresh Token"; and it stops on a marked
\* Supabase error when the budget is 0.
C5_OtherResultsTerminal ==
    (retry.decided # "none" /\ (~IsMarked(LastResult) \/ retry.before = 0)) =>
        /\ retry.decided = "terminal"
        /\ retry.pc = "done"
        /\ retry.res = LastResult
        /\ policy = retry.before

\* C5 witness: with budget left, an attempt failed with a Supabase error
\* whose description is "refresh token" in lower case, and the call ended.
C5_Witness ==
    /\ retry.decided = "terminal"
    /\ retry.before > 0
    /\ LastResult = Err(Supabase("invalid_grant", D_lower))

\* C6: the remaining-attempts counter of the policy is never negative, never
\* grows, and changes only by one decrement, taken when it is above 0 and the
\* attempt just judged failed with a marked Supabase error.
C6_CounterMonotone ==
    [][/\ policy >= 0
       /\ policy' >= 0
       /\ policy' <= policy
       /\ policy' # policy =>
             /\ policy' = policy - 1
             /\ policy > 0
             /\ IsMarked(retry'.hist[Len(retry'.hist)])]_vars

\* C6 witness: the counter has been decremented twice.
C6_Witness ==
    /\ retry.n0 = 2
    /\ policy = 0
    /\ retry.decided = "retry"

\* C11: the request get_jwt_header sends to the AuthService carries the id of
\* the context's flow_owner, on the context's own AuthService handle, for
\* every pair of users; when flow_owner and started_by differ it is not
\* started_by's id.
C11_TokenForFlowOwner ==
    \A t \in Tasks :
        tasks[t].op = "get_jwt_header" =>
            /\ tasks[t].req = [user_id |-> ctxs[t].flow_owner.id]
            /\ tasks[t].h = ctxs[t].get_jwt
            /\ ctxs[t].flow_owner.id # ctxs[t].started_by.id =>
                  tasks[t].req.user_id # ctxs[t].started_by.id

\* C11 witness: the AuthService has answered a get_jwt_header of a run owned
\* by u1 and started by u2.
C11_Witness ==
    \E t \in Tasks :
        /\ tasks[t].op = "get_jwt_header"
        /\ tasks[t].pc = "done"
        /\ tasks[t].calls = 1
        /\ ctxs[t].flow_owner.id = "u1"
        /\ ctxs[t].started_by.id = "u2"
        /\ tasks[t].req.user_id = "u1"

\* C12: new_interflow_origin returns at once; with a CommandContext attached
\* it returns Some(Interflow) whose flow_run_id, node_id and times are the
\* CommandContext's (times as it is), without one it returns None, and None
\* only then; the step changes no context, no handle and no other caller, and
\* names no handle.
C12_InterflowOrigin ==
    [][\A t \in Tasks :
          (tasks[t].pc = "idle" /\ tasks'[t].op = "new_interflow_origin") =>
              /\ tasks'[t].pc = "done"
              /\ tasks'[t].origin.some = ctxs[t].command.some
              /\ ctxs[t].command.some =>
                    /\ tasks'[t].origin.val.variant = "Interflow"
                    /\ tasks'[t].origin.val.flow_run_id = ctxs[t].command.val.flow_run_id
                    /\ tasks'[t].origin.val.node_id = ctxs[t].command.val.node_id
                    /\ tasks'[t].origin.val.times = ctxs[t].command.val.times
              /\ tasks'[t].h = 0 /\ tasks'[t].calls = 0
              /\ ctxs' = ctxs /\ handles' = handles /\ configured' = configured
              /\ \A u \in Tasks \ {t} : tasks'[u] = tasks[u]]_vars

\* C12 witness: new_interflow_origin has returned the origin of a node
\* invocation whose attempt counter is 2.
C12_Witness ==
    \E t \in Tasks :
        /\ tasks[t].op = "new_interflow_origin"
        /\ tasks[t].pc = "done"
        /\ ctxs[t].command.some
        /\ ctxs[t].command.val.times = 2
        /\ tasks[t].origin = Some([variant |-> "Interflow", flow_run_id |-> "r1",
                                   node_id |-> "n1", times |-> 2])

\* C16: get::<T>() returns None for a type the registry handed to from_cfg
\* does not hold and Some(the registered value) for a type it holds, also
\* when the registry holds values of two types; every clone reads the
\* registry of the context the executor built, and no step changes it.
C16_GetByType ==
    [][/\ \A c \in {Root} \cup Tasks :
             /\ ctxs'[Root].extensions = ctxs[Root].extensions
             /\ ctxs'[c].signer # 0 => ctxs'[c].extensions = ctxs[Root].extensions
       /\ \A t \in Tasks :
             (tasks'[t].op = "get" /\ tasks'[t].pc = "done") =>
                 IF tasks'[t].ty \in DOMAIN ctxs[Root].extensions
                 THEN tasks'[t].got = Some(ctxs[Root].extensions[tasks'[t].ty])
                 ELSE tasks'[t].got = None]_vars

\* C16 witness: on a clone whose registry holds two different values for TyA
\* and TyB, get::<TyB>() has returned TyB's.
C16_Witness ==
    \E t \in Tasks :
        /\ tasks[t].op = "get"
        /\ tasks[t].pc = "done"
        /\ tasks[t].ty = "TyB"
        /\ DOMAIN ctxs[t].extensions = {"TyA", "TyB"}
        /\ ctxs[t].extensions["TyA"] = "a2"
        /\ tasks[t].got = Some("a1")

InternalFailures == {"panic", "closed"}

\* C14: for each capability, when the handler of a from-handler handle fails
\* internally, the caller of get_jwt_header, execute or request_signature (and
\* the signer call inside execute::simple's handler) is given that
\* capability's Worker variant, not Other nor any other variant.
C14_WorkerVariant ==
    \A t \in Tasks :
        /\ (tasks[t].pc = "done" /\ ~tasks[t].resp.ok
              /\ tasks[t].resp.err.payload \in InternalFailures)
              => tasks[t].resp.err.variant = "Worker"
        /\ (tasks[t].sub = "done" /\ ~tasks[t].subresp.ok
              /\ tasks[t].subresp.err.payload \in InternalFailures)
              => tasks[t].subresp.err.variant = "Worker"

\* C14 witness: the handler of an injected AuthService failed internally and
\* get_jwt_header returned get_jwt::Error::Other.
C14_Witness ==
    \E t \in Tasks :
        /\ tasks[t].op = "get_jwt_header"
        /\ tasks[t].pc = "done"
        /\ handles[tasks[t].h].kind = "from_service"
        /\ tasks[t].calls = 1
        /\ tasks[t].res = Err(E("Other", "panic"))

\* The callers whose own call is in flight on handle h, and those whose
\* execute::simple handler has a signer call in flight on h.
CallersOn(h) == {t \in Tasks : tasks[t].pc = "call" /\ tasks[t].h = h}

SignersOn(h) == {t \in Tasks : tasks[t].sub = "call" /\ handles[tasks[t].h].signer = h}

CallsOn(h) == Cardinality(CallersOn(h)) + Cardinality(SignersOn(h))

\* C15: the Auth, Signer and Execution handles have budgets of their own: a
\* caller awaiting ready() on a handle with a free slot can be admitted
\* whatever is in flight on the other handles; the number of calls in flight
\* on a handle changes only in a step of a call on that very handle, and no
\* step changes it on two handles.
C15_IndependentBudgets ==
    [][/\ \A t \in Tasks :
             (tasks[t].pc = "ready" /\ tasks[t].h \in BudgetHandles
                /\ CallsOn(tasks[t].h) < configured[tasks[t].h].size)
             => ENABLED Ready(t)
       /\ \A h \in BudgetHandles :
             CallsOn(h)' # CallsOn(h) =>
                 \E t \in Tasks :
                     /\ tasks'[t] # tasks[t]
                     /\ \A u \in Tasks \ {t} : tasks'[u] = tasks[u]
                     /\ \/ tasks'[t].h = h /\ tasks'[t].pc # tasks[t].pc
                        \/ handles[tasks[t].h].signer = h /\ tasks'[t].sub # tasks[t].sub
       /\ \A h1, h2 \in BudgetHandles :
             (CallsOn(h1)' # CallsOn(h1) /\ CallsOn(h2)' # CallsOn(h2)) => h1 = h2]_vars

\* C15 witness: the SignerService budget is used up by a request_signature
\* while another caller's get_jwt_header has been admitted and is in flight
\* on the AuthService.
C15_Witness ==
    \E t, u \in Tasks :
        /\ t # u
        /\ tasks[t].op = "request_signature" /\ tasks[t].pc = "call"
        /\ handles[tasks[t].h].kind = "from_service"
        /\ CallsOn(tasks[t].h) = configured[tasks[t].h].size
        /\ tasks[u].op = "get_jwt_header" /\ tasks[u].pc = "call"
        /\ handles[tasks[u].h].kind = "from_service"
        /\ tasks[u].h # tasks[t].h

\* C20: with handlers that terminate and slots handed out fairly, every caller
\* that awaits ready() on a handle gets its result, and every signer call an
\* execute::simple handler starts is answered: an execute that holds a slot
\* of its ExecutionService while its handler waits for a SignerService slot
\* is never stuck behind the concurrent execute and request_signature calls
\* of other clones.
C20_EveryCallerAnswered ==
    \A t \in Tasks :
        /\ (tasks[t].pc = "ready") ~> (tasks[t].pc = "done")
        /\ (tasks[t].sub = "ready") ~> (tasks[t].sub = "done")

\* C20 witness: an execute holds the only slot of its ExecutionService while
\* its handler waits for the only SignerService slot, held by another
\* clone's request_signature.
C20_Witness ==
    \E t, u \in Tasks :
        /\ t # u
        /\ tasks[t].op = "execute" /\ tasks[t].pc = "call" /\ tasks[t].sub = "ready"
        /\ configured[tasks[t].h].size = 1
        /\ tasks[u].op = "request_signature" /\ tasks[u].pc = "call"
        /\ tasks[u].h = handles[tasks[t].h].signer
        /\ CallsOn(tasks[u].h) = configured[tasks[u].h].size

\* C17: whatever the handler answers to each attempt (success, a Supabase
\* failure with or without "Refresh Token", any other failure, in any
\* order), a call under RetryPolicy(n) sends at most n + 1 requests to the
\* handler, and when the handler answers every attempt the call ends with a
\* result.
C17_RetryTerminates ==
    /\ [](/\ Len(retry.sent) <= retry.n0 + 1
          /\ Len(retry.hist) <= retry.n0 + 1
          /\ retry.pc = "done" => retry.res = retry.hist[Len(retry.hist)])
    /\ <>(retry.pc = "done")

\* C17 witness: under RetryPolicy(2) two marked failures were retried and the
\* third attempt succeeded.
C17_Witness ==
    /\ retry.pc = "done"
    /\ retry.n0 = 2
    /\ Len(retry.sent) = 3
    /\ IsMarked(retry.hist[1])
    /\ IsMarked(retry.hist[2])
    /\ retry.res.ok

\* The variants of execute::Error.
ExecuteErrors ==
    {"Canceled", "NotAvailable", "TxIncomplete", "Timeout", "InsufficientSolanaBalance",
     "TxSimFailed", "Solana", "Signer", "Worker", "MailBox", "ChannelClosed", "Other"}

\* Caller t's execute has been answered by a handle built by execute::simple.
SimpleAnswered(t) ==
    /\ tasks[t].op = "execute"
    /\ tasks[t].pc = "done"
    /\ tasks[t].h # 0
    /\ configured[tasks[t].h].ctor = "execute::simple"

\* C18: a successful call of the simple strategy returns Some(signature) of
\* the submitted transaction, and signature = None when the instructions
\* produce no on-chain transaction; a failure is returned as an
\* execute::Error, with no Response.
C18_SimpleResponse ==
    \A t \in Tasks :
        SimpleAnswered(t) =>
            /\ tasks[t].res = tasks[t].resp
            /\ tasks[t].resp.ok =>
                  IF tasks[t].req.instructions \in NoTxInstrs
                  THEN ~tasks[t].resp.val.signature.some
                  ELSE tasks[t].resp.val.signature.some
            /\ ~tasks[t].resp.ok => tasks[t].resp.err.variant \in ExecuteErrors

\* C18 witness: execute of the batch without instructions has succeeded on
\* the simple strategy and the response holds Some(signature).
C18_Witness ==
    \E t \in Tasks :
        /\ SimpleAnswered(t)
        /\ tasks[t].req.instructions = "i0"
        /\ tasks[t].res = Ok([signature |-> Some("txsig")])

\* C19: a context that exists is never changed: no step of execute,
\* request_signature, get_jwt_header, new_interflow_origin or get changes the
\* flow_run_id, node_id or times of its CommandContext (nor the handle the
\* CommandContext is bound to), nor its flow_owner or started_by; and the
\* step that makes a clone and attaches a CommandContext to it changes the
\* new clone only, so the original and the other clones keep their command
\* field.
C19_ContextsFrozen ==
    [][\A c \in {Root} \cup Tasks :
          /\ ctxs[c].signer # 0 =>
                /\ ctxs'[c].command = ctxs[c].command
                /\ ctxs'[c].flow_owner = ctxs[c].flow_owner
                /\ ctxs'[c].started_by = ctxs[c].started_by
          /\ (ctxs[c].signer = 0 /\ ctxs'[c].signer # 0) =>
                /\ \A d \in ({Root} \cup Tasks) \ {c} : ctxs'[d] = ctxs[d]
                /\ \E s \in {Root} \cup Tasks :
                      /\ ctxs[s].signer # 0
                      /\ ctxs'[c].flow_owner = ctxs[s].flow_owner
                      /\ ctxs'[c].started_by = ctxs[s].started_by]_vars

\* C19 witness: the executor attached a CommandContext to one clone of a
\* from_cfg context and not to another; after an execute on the first, it
\* still holds what was attached, and the original and the other clone have
\* none.
C19_Witness ==
    \E t, u \in Tasks :
        /\ t # u
        /\ tasks[t].op = "execute" /\ tasks[t].pc = "done" /\ tasks[t].calls = 1
        /\ ctxs[t].command = Some([svc |-> ExecH(t), flow_run_id |-> "r1",
                                   node_id |-> "n1", times |-> 1])
        /\ ctxs[t].flow_owner.id = "u1" /\ ctxs[t].started_by.id = "u2"
        /\ ctxs[u].signer # 0
        /\ ~ctxs[u].command.some
        /\ ~ctxs[Root].command.some

====
